---- MODULE Spec2Model ----
(***************************************************************************)
(* Connection ID generators of quinn-proto (cid_generator.rs): the random  *)
(* generator, the keyed generator, and the ConnectionIdGenerator trait's   *)
(* default validate.                                                       *)
(***************************************************************************)
EXTENDS Integers, Sequences, FiniteSets, TLC

VARIABLES gen, peer, arg, issued, result, pc

vars == <<gen, peer, arg, issued, result, pc>>

----------------------------------------------------------------------------
(* Program constants *)

NONCE_LEN == 3
SIGNATURE_LEN == 5
MAX_SIGNATURE_LEN == 128
MAX_CID_SIZE == 20
DEFAULT_CID_LEN == 8
U8 == 2 ^ 8

(* Bounds of the model *)

MaxRandByte == 1      \* the random source yields bytes in 0..MaxRandByte
MaxLifetime == 0      \* durations passed to set_lifetime are 0..MaxLifetime

----------------------------------------------------------------------------
(* Values *)

None == <<>>
Some(d) == <<d>>

Zeros(n) == [j \in 1..n |-> 0]

Min(a, b) == IF a < b THEN a ELSE b

\* ConnectionId { len: u8, bytes: [u8; MAX_CID_SIZE] }
ConnectionIdNew(bytes) ==
    [len |-> Len(bytes), bytes |-> bytes \o Zeros(MAX_CID_SIZE - Len(bytes))]

\* Deref for ConnectionId: &self.bytes[0..self.len]
Deref(cid) == SubSeq(cid.bytes, 1, cid.len)

NoCid == ConnectionIdNew(<<>>)

\* The signature lengths of the keys tried
SigLens ==
    {0, 2, SIGNATURE_LEN, 32, MAX_SIGNATURE_LEN - 1, MAX_SIGNATURE_LEN,
     MAX_SIGNATURE_LEN + 1}

\* dyn crypto::HmacKey: a key is its signature length and its secret
Keys == [signature_len : SigLens, secret : {101}]

RECURSIVE Weight(_, _, _)
Weight(data, m, j) ==
    IF j = 0 THEN 0 ELSE data[j] * (j * m + 1) + Weight(data, m, j - 1)

\* HmacKey::sign(data, signature_out): a keyed, deterministic function of
\* the data filling signature_len() bytes
Sign(key, data) ==
    LET w0 == Weight(data, 0, Len(data)) + Len(data) * 7 + key.secret
        w1 == Weight(data, 1, Len(data)) - Weight(data, 0, Len(data))
    IN [i \in 1..key.signature_len |-> (w0 + i * (29 + w1)) % U8]

RandByte == 0..MaxRandByte

\* rand::thread_rng().fill_bytes(&mut buf[..n]): the outcomes drawn
RandomBytes(n) ==
    {[j \in 1..n |-> p[((j - 1) % 2) + 1]] : p \in [1..2 -> RandByte]}

Durations == 0..MaxLifetime

----------------------------------------------------------------------------
(* RandomConnectionIdGenerator *)

RandomDefault == [type |-> "Random", cid_len |-> DEFAULT_CID_LEN, lifetime |-> None]

RandomNew(cid_len) == [RandomDefault EXCEPT !.cid_len = cid_len]

RandomGenerateCid_Full(g, bytes) ==
    ConnectionIdNew(bytes \o Zeros(MAX_CID_SIZE - g.cid_len))

RandomGenerateCid(g, bytes) ==
    LET bytes_arr == bytes \o Zeros(MAX_CID_SIZE - g.cid_len)
    IN ConnectionIdNew(SubSeq(bytes_arr, 1, g.cid_len))

----------------------------------------------------------------------------
(* KeyedConnectionIdGenerator *)

KeyAccepted_AtMost(key) == key.signature_len <= MAX_SIGNATURE_LEN

\* the assertion of from_key
KeyAccepted(key) == key.signature_len < MAX_SIGNATURE_LEN

KeyedFromKey(key) == [type |-> "Keyed", key |-> key, lifetime |-> None]

KeyedCidLen == NONCE_LEN + SIGNATURE_LEN

KeyedGenerateCid_Tail(g, nonce) ==
    LET sig == Sign(g.key, nonce)
        bytes_arr == nonce \o sig \o Zeros(MAX_SIGNATURE_LEN - g.key.signature_len)
        n == g.key.signature_len
    IN IF n > SIGNATURE_LEN
       THEN ConnectionIdNew(nonce \o SubSeq(sig, n - SIGNATURE_LEN + 1, n))
       ELSE ConnectionIdNew(SubSeq(bytes_arr, 1, KeyedCidLen))

KeyedGenerateCid(g, nonce) ==
    LET bytes_arr ==
            nonce \o Sign(g.key, nonce)
                  \o Zeros(MAX_SIGNATURE_LEN - g.key.signature_len)
    IN ConnectionIdNew(SubSeq(bytes_arr, 1, KeyedCidLen))

KeyedValidate_NoPad(g, cid) ==
    LET bytes == Deref(cid)
    IN IF Len(bytes) < NONCE_LEN
       THEN "panic"
       ELSE LET nonce == SubSeq(bytes, 1, NONCE_LEN)
                signature == SubSeq(bytes, NONCE_LEN + 1, Len(bytes))
                expected_signature == Sign(g.key, nonce)
            IN IF Len(expected_signature) >= SIGNATURE_LEN
                  /\ SubSeq(expected_signature, 1, SIGNATURE_LEN) = signature
               THEN "Ok"
               ELSE "InvalidCid"

KeyedValidate_Short(g, cid) ==
    LET bytes == Deref(cid)
    IN IF Len(bytes) < NONCE_LEN
       THEN "panic"
       ELSE LET nonce == SubSeq(bytes, 1, NONCE_LEN)
                signature == SubSeq(bytes, NONCE_LEN + 1, Len(bytes))
                expected_signature ==
                    Sign(g.key, nonce) \o Zeros(MAX_SIGNATURE_LEN - g.key.signature_len)
            IN IF Len(signature) = SIGNATURE_LEN
                  /\ SubSeq(expected_signature, 1, SIGNATURE_LEN - 1)
                       = SubSeq(signature, 1, SIGNATURE_LEN - 1)
               THEN "Ok"
               ELSE "InvalidCid"

KeyedValidate_Prefix(g, cid) ==
    LET bytes == Deref(cid)
    IN IF Len(bytes) < NONCE_LEN
       THEN "panic"
       ELSE LET nonce == SubSeq(bytes, 1, NONCE_LEN)
                signature == SubSeq(bytes, NONCE_LEN + 1, Len(bytes))
                expected_signature ==
                    Sign(g.key, nonce) \o Zeros(MAX_SIGNATURE_LEN - g.key.signature_len)
            IN IF Len(signature) >= SIGNATURE_LEN
                  /\ SubSeq(expected_signature, 1, SIGNATURE_LEN)
                       = SubSeq(signature, 1, SIGNATURE_LEN)
               THEN "Ok"
               ELSE "InvalidCid"

KeyedValidate_Expiring(g, cid) ==
    LET bytes == Deref(cid)
    IN IF Len(bytes) < NONCE_LEN
       THEN "panic"
       ELSE LET nonce == SubSeq(bytes, 1, NONCE_LEN)
                signature == SubSeq(bytes, NONCE_LEN + 1, Len(bytes))
                expected_signature ==
                    Sign(g.key, nonce) \o Zeros(MAX_SIGNATURE_LEN - g.key.signature_len)
            IN IF g.lifetime = None
                  /\ SubSeq(expected_signature, 1, SIGNATURE_LEN) = signature
               THEN "Ok"
               ELSE "InvalidCid"

\* cid.split_at(NONCE_LEN) panics when the identifier is shorter than the
\* nonce; slices of different lengths compare unequal
KeyedValidate(g, cid) ==
    LET bytes == Deref(cid)
    IN IF Len(bytes) < NONCE_LEN
       THEN "panic"
       ELSE LET nonce == SubSeq(bytes, 1, NONCE_LEN)
                signature == SubSeq(bytes, NONCE_LEN + 1, Len(bytes))
                expected_signature ==
                    Sign(g.key, nonce) \o Zeros(MAX_SIGNATURE_LEN - g.key.signature_len)
            IN IF SubSeq(expected_signature, 1, SIGNATURE_LEN) = signature
               THEN "Ok"
               ELSE "InvalidCid"

----------------------------------------------------------------------------
(* trait ConnectionIdGenerator *)

DefaultValidate_NonEmpty(g, cid) == IF cid.len = 0 THEN "InvalidCid" ELSE "Ok"

\* the provided method of the trait
DefaultValidate(g, cid) == "Ok"

\* dynamic dispatch of validate
Validate(g, cid) ==
    IF g.type = "Keyed" THEN KeyedValidate(g, cid) ELSE DefaultValidate(g, cid)

\* dynamic dispatch of cid_len
CidLen(g) == IF g.type = "Keyed" THEN KeyedCidLen ELSE g.cid_len

SetLifetime(g, d) == [g EXCEPT !.lifetime = Some(d)]

NoGen == [type |-> "None"]

----------------------------------------------------------------------------
(* Identifiers handed to validate *)

Deltas == {1, U8 - 1}

Mutate(cid, i, d) ==
    ConnectionIdNew([Deref(cid) EXCEPT ![i] = (@ + d) % U8])

Mutations(cid) == {Mutate(cid, i, d) : i \in 1..cid.len, d \in Deltas}

Prefixes(cid) ==
    {ConnectionIdNew(SubSeq(Deref(cid), 1, n)) : n \in 0..(cid.len - 1)}

Extensions(cid) ==
    {ConnectionIdNew(Deref(cid) \o Zeros(k)) : k \in 1..(MAX_CID_SIZE - cid.len)}

Patterns == {ConnectionIdNew(Zeros(n)) : n \in 0..MAX_CID_SIZE}

IssuedCids == {e.cid : e \in issued}

Candidates ==
    Patterns \cup IssuedCids
        \cup UNION {Mutations(c) \cup Prefixes(c) \cup Extensions(c) : c \in IssuedCids}

Generators == {"gen", "peer"}

The(who) == IF who = "gen" THEN gen ELSE peer

\* issued holds one of the identifiers generate_cid has returned so far, any
\* of them, with the generator it came from
Remember(who, cid) ==
    IF issued = {}
    THEN {{[by |-> who, cid |-> cid]}}
    ELSE {issued, {[by |-> who, cid |-> cid]}}

----------------------------------------------------------------------------
(* State machine *)

NoResult ==
    [op |-> "none", who |-> "gen", drawn |-> <<>>, cid |-> NoCid, verdict |-> "none"]

Init ==
    /\ gen = NoGen
    /\ peer = NoGen
    /\ arg = [kind |-> "none"]
    /\ issued = {}
    /\ result = NoResult
    /\ pc = "new"

\* RandomConnectionIdGenerator::new(cid_len)
New ==
    /\ pc = "new"
    /\ \E cid_len \in 0..MAX_CID_SIZE :
        /\ gen' = RandomNew(cid_len)
        /\ arg' = [kind |-> "len", cid_len |-> cid_len]
    /\ pc' = "returned"
    /\ result' = [result EXCEPT !.op = "new"]
    /\ UNCHANGED <<peer, issued>>

\* KeyedConnectionIdGenerator::from_key(key)
FromKey ==
    /\ pc = "new"
    /\ \E key \in Keys :
        /\ arg' = [kind |-> "key", key |-> key]
        /\ IF KeyAccepted(key)
           THEN gen' = KeyedFromKey(key) /\ pc' = "returned"
           ELSE gen' = gen /\ pc' = "panicked"
    /\ result' = [result EXCEPT !.op = "from_key"]
    /\ UNCHANGED <<peer, issued>>

\* a second generator made by from_key over a clone of the same Arc'd key
PeerFromKey ==
    /\ pc = "ready"
    /\ gen.type = "Keyed"
    /\ peer = NoGen
    /\ KeyAccepted(gen.key)
    /\ peer' = KeyedFromKey(gen.key)
    /\ result' = [result EXCEPT !.op = "from_key", !.who = "peer"]
    /\ pc' = "returned"
    /\ UNCHANGED <<gen, arg, issued>>

\* RandomConnectionIdGenerator::set_lifetime(d)
RandomSetLifetime ==
    /\ pc = "ready"
    /\ gen.type = "Random"
    /\ \E d \in Durations : gen' = SetLifetime(gen, d)
    /\ result' = [result EXCEPT !.op = "set_lifetime", !.who = "gen"]
    /\ pc' = "returned"
    /\ UNCHANGED <<peer, arg, issued>>

\* KeyedConnectionIdGenerator::set_lifetime(d)
KeyedSetLifetime ==
    /\ pc = "ready"
    /\ \E who \in Generators, d \in Durations :
        /\ The(who).type = "Keyed"
        /\ IF who = "gen"
           THEN gen' = SetLifetime(gen, d) /\ peer' = peer
           ELSE peer' = SetLifetime(peer, d) /\ gen' = gen
        /\ result' = [result EXCEPT !.op = "set_lifetime", !.who = who]
    /\ pc' = "returned"
    /\ UNCHANGED <<arg, issued>>

\* <RandomConnectionIdGenerator as ConnectionIdGenerator>::generate_cid
RandomGenerate ==
    /\ pc = "ready"
    /\ gen.type = "Random"
    /\ \E bytes \in RandomBytes(gen.cid_len) :
        LET cid == RandomGenerateCid(gen, bytes)
        IN /\ result' = [op |-> "generate_cid", who |-> "gen", drawn |-> bytes,
                         cid |-> cid, verdict |-> "none"]
           /\ issued' \in Remember("gen", cid)
    /\ pc' = "returned"
    /\ UNCHANGED <<gen, peer, arg>>

\* <KeyedConnectionIdGenerator as ConnectionIdGenerator>::generate_cid
KeyedGenerate ==
    /\ pc = "ready"
    /\ \E who \in Generators, nonce \in RandomBytes(NONCE_LEN) :
        /\ The(who).type = "Keyed"
        /\ LET cid == KeyedGenerateCid(The(who), nonce)
           IN /\ result' = [op |-> "generate_cid", who |-> who, drawn |-> nonce,
                            cid |-> cid, verdict |-> "none"]
              /\ issued' \in Remember(who, cid)
    /\ pc' = "returned"
    /\ UNCHANGED <<gen, peer, arg>>

\* ConnectionIdGenerator::validate(cid) on either generator
ValidateCid ==
    /\ pc = "ready"
    /\ \E who \in Generators, cid \in Candidates :
        /\ The(who).type # "None"
        /\ LET v == Validate(The(who), cid)
           IN /\ result' = [op |-> "validate", who |-> who, drawn |-> <<>>,
                            cid |-> cid, verdict |-> v]
              /\ pc' = IF v = "panic" THEN "panicked" ELSE "returned"
    /\ UNCHANGED <<gen, peer, arg, issued>>

\* the caller drops the value the last call returned and goes on
Return ==
    /\ pc = "returned"
    /\ result' = NoResult
    /\ pc' = "ready"
    /\ UNCHANGED <<gen, peer, arg, issued>>

Next ==
    \/ New
    \/ FromKey
    \/ PeerFromKey
    \/ RandomSetLifetime
    \/ KeyedSetLifetime
    \/ RandomGenerate
    \/ KeyedGenerate
    \/ ValidateCid
    \/ Return

Spec == Init /\ [][Next]_vars

----------------------------------------------------------------------------
(* Properties *)

Keyed(who) == The(who).type = "Keyed"

\* the S-byte signature field the key yields for a nonce
SignatureField(key, nonce) ==
    SubSeq(Sign(key, nonce) \o Zeros(SIGNATURE_LEN), 1, SIGNATURE_LEN)

NonceOf(cid) == SubSeq(Deref(cid), 1, NONCE_LEN)

\* C1: every identifier a keyed generator has returned is accepted by
\* validate on that same generator, whatever calls came in between.
C1_NoFalseNegatives ==
    /\ \A e \in issued : Keyed(e.by) => Validate(The(e.by), e.cid) = "Ok"
    /\ (result.op = "generate_cid" /\ Keyed(result.who))
          => Validate(The(result.who), result.cid) = "Ok"
    /\ (result.op = "validate" /\ Keyed(result.who)
          /\ [by |-> result.who, cid |-> result.cid] \in issued)
          => result.verdict = "Ok"

C1_Witness ==
    /\ result.op = "validate"
    /\ result.who = "gen"
    /\ Keyed("gen")
    /\ gen.lifetime # None
    /\ gen.key.signature_len < SIGNATURE_LEN
    /\ [by |-> "gen", cid |-> result.cid] \in issued
    /\ result.verdict = "Ok"

\* C2 as stated: a keyed identifier is 8 bytes long, starts with the nonce
\* and ends with the first S bytes of the key's signature over the nonce,
\* also for keys whose signature is shorter than S.
C2_Original ==
    (result.op = "generate_cid" /\ Keyed(result.who)) =>
        LET key == The(result.who).key
            sig == Sign(key, result.drawn)
        IN /\ result.cid.len = NONCE_LEN + SIGNATURE_LEN
           /\ result.cid.len = CidLen(The(result.who))
           /\ NonceOf(result.cid) = result.drawn
           /\ SubSeq(Deref(result.cid), NONCE_LEN + 1, result.cid.len)
                = SubSeq(sig, 1, Min(SIGNATURE_LEN, Len(sig)))

\* C2 amended: a keyed identifier is 8 bytes long, starts with the nonce and
\* ends with the first S bytes of the key's signature over the nonce, the
\* signature being padded with zero bytes to S bytes when it is shorter.
C2_Layout ==
    (result.op = "generate_cid" /\ Keyed(result.who)) =>
        LET key == The(result.who).key
        IN /\ result.cid.len = NONCE_LEN + SIGNATURE_LEN
           /\ result.cid.len = CidLen(The(result.who))
           /\ Len(result.drawn) = NONCE_LEN
           /\ NonceOf(result.cid) = result.drawn
           /\ SubSeq(Deref(result.cid), NONCE_LEN + 1, result.cid.len)
                = SignatureField(key, result.drawn)

C2_Witness ==
    /\ result.op = "generate_cid"
    /\ Keyed(result.who)
    /\ The(result.who).key.signature_len \in 1..(SIGNATURE_LEN - 1)
    /\ result.drawn[1] # result.drawn[2]

\* C3: every identifier of the random generator is exactly as long as the
\* configured length, which is cid_len(), whatever set_lifetime calls came
\* in between.
C3_RandomLength ==
    (result.op = "generate_cid" /\ gen.type = "Random") =>
        /\ arg.cid_len \in 0..MAX_CID_SIZE
        /\ result.cid.len = arg.cid_len
        /\ Len(Deref(result.cid)) = arg.cid_len
        /\ CidLen(gen) = arg.cid_len

C3_Witness ==
    /\ result.op = "generate_cid"
    /\ gen.type = "Random"
    /\ gen.lifetime # None
    /\ arg.cid_len = 5
    /\ issued # {}
    /\ result.cid \notin IssuedCids

C5_Claim ==
    (arg.kind = "key" /\ arg.key.signature_len <= MAX_SIGNATURE_LEN) =>
        /\ gen.type = "Keyed"
        /\ gen.key = arg.key

\* C6: the keyed validate returns Ok or InvalidCid for every identifier of
\* length 0..=MAX_CID_SIZE, never panics, and returns InvalidCid for every
\* identifier shorter than 8 bytes.
C6_Claim ==
    (result.op = "validate" /\ Keyed(result.who)) =>
        /\ result.verdict \in {"Ok", "InvalidCid"}
        /\ result.cid.len < NONCE_LEN + SIGNATURE_LEN => result.verdict = "InvalidCid"

\* C7: changing one byte of an issued keyed identifier to another value
\* yields an identifier validate rejects, unless the changed byte is in the
\* nonce and the altered nonce has the same signature field as the original.
C7_SingleByte ==
    (result.op = "validate" /\ Keyed(result.who)) =>
        \A c \in IssuedCids : \A i \in 1..c.len : \A d \in Deltas :
            result.cid = Mutate(c, i, d) =>
                \/ result.verdict = "InvalidCid"
                \/ /\ i <= NONCE_LEN
                   /\ SignatureField(The(result.who).key, NonceOf(result.cid))
                        = SignatureField(The(result.who).key, NonceOf(c))

C7_Witness ==
    /\ result.op = "validate"
    /\ Keyed(result.who)
    /\ result.verdict = "InvalidCid"
    /\ \E c \in IssuedCids : \E d \in Deltas :
          result.cid = Mutate(c, NONCE_LEN + SIGNATURE_LEN, d)

\* C8: the default validate, as the random generator uses it, returns Ok
\* for every identifier of every length, after any calls.
C8_DefaultAccepts ==
    /\ (result.op = "validate" /\ The(result.who).type = "Random")
          => result.verdict = "Ok"
    /\ gen.type = "Random" => \A c \in Patterns : Validate(gen, c) = "Ok"

C8_Witness ==
    /\ result.op = "validate"
    /\ gen.type = "Random"
    /\ gen.lifetime # None
    /\ issued # {}
    /\ result.cid.len = 0
    /\ gen.cid_len # 0
    /\ result.verdict = "Ok"

\* C9: the keyed verdict depends only on the key and the identifier's
\* bytes: after any calls, each generator over the key gives every
\* identifier the verdict a fresh generator over that key gives, so the two
\* generators agree, each accepts what the other issued, and no call has
\* changed a verdict.
C9_Stateless ==
    \A who \in Generators : Keyed(who) =>
        /\ The(who).key = arg.key
        /\ \A c \in IssuedCids \cup {result.cid} :
              Validate(The(who), c) = Validate(KeyedFromKey(arg.key), c)
        /\ \A c \in IssuedCids : Validate(The(who), c) = "Ok"
        /\ (result.op = "validate" /\ Keyed(result.who)) =>
              result.verdict = Validate(The(who), result.cid)

C9_Witness ==
    /\ Keyed("gen")
    /\ Keyed("peer")
    /\ gen.lifetime # peer.lifetime
    /\ result.op = "validate"
    /\ result.who = "peer"
    /\ [by |-> "gen", cid |-> result.cid] \in issued
    /\ [by |-> "peer", cid |-> result.cid] \notin issued
    /\ result.verdict = "Ok"

\* C10: the keyed validate returns Ok only for identifiers of exactly 8
\* bytes whose last S bytes are the zero-padded signature field of their
\* first N bytes; a longer identifier is never accepted.
C10_OnlyExact ==
    (result.op = "validate" /\ Keyed(result.who) /\ result.verdict = "Ok") =>
        /\ result.cid.len = NONCE_LEN + SIGNATURE_LEN
        /\ SubSeq(Deref(result.cid), NONCE_LEN + 1, result.cid.len)
             = SignatureField(The(result.who).key, NonceOf(result.cid))

C10_Witness ==
    /\ result.op = "validate"
    /\ Keyed(result.who)
    /\ result.cid.len > NONCE_LEN + SIGNATURE_LEN
    /\ ConnectionIdNew(SubSeq(Deref(result.cid), 1, NONCE_LEN + SIGNATURE_LEN))
          \in IssuedCids
    /\ result.verdict = "InvalidCid"

====
